---- MODULE Spec2Model ----
(***************************************************************************)
(* Model of src/feature_selection.py: the preprocessing, stratified split, *)
(* training and evaluation stages of the ECG diagnosis pipeline.           *)
(*                                                                         *)
(* Numeric conventions.  Heights and weights are held in tenths of a unit  *)
(* (170.0 is 1700), so that the one-decimal rounding of the group means    *)
(* and the +-2.5 / +-2 donor window are integer arithmetic.  Ages are      *)
(* whole years.  A missing numeric cell (numpy NaN) is the value NaN; a    *)
(* missing text cell is the string "nan".  Floating point rounding error   *)
(* is not modelled: means, medians and ratios are exact rationals.         *)
(***************************************************************************)
EXTENDS Integers, Sequences, FiniteSets, TLC

VARIABLES
    raw,        \* format_df's argument: [cols |-> set of column names, rows |-> Seq of records]
    df,         \* what format_df returned (a sequence of records), <<>> before it returns
    steps,      \* the processing steps the last format_df call applied, in order
    err,        \* the exception the last call raised, "none" when it returned
    y,          \* train_test_split_by_category's target column: y[k + 1] is the label at index k
    split,      \* what the split returned: [X_train, y_train, X_test, y_test], <<>> before
    y_train,    \* train's labels, a sequence of class codes
    param_grid, \* train's param_grid argument: [none |-> TRUE] or [none |-> FALSE, dict |-> the dict]
    class_weight,   \* the class_weight dict train computed, keyed by class code
    grid_search,    \* the GridSearchCV object train built, <<>> when it built none
    rf,         \* the classifier train returned, <<>> before
    y_test,     \* the true labels given to create_reports
    y_pred,     \* the labels the classifier predicted for them
    report,     \* the classification report dict, as its items in order; <<>> before
    cm,         \* the confusion matrix create_reports returned, <<>> before
    table,      \* the rows of the table create_report_table returned, <<>> before
    fig,        \* the heatmap create_confusion_matrix returned, <<>> before
    X_columns,  \* select_features' X.columns, the feature names in column order
    importances,    \* rf.feature_importances_, in hundredths, one per training column
    features    \* what select_features returned: [returned |-> TRUE, value |-> the list]

cleanVars == <<raw, df, steps>>
splitVars == <<y, split>>
trainVars == <<y_train, param_grid, class_weight, grid_search, rf>>
evalVars == <<y_test, y_pred, report, cm, table, fig>>
rankVars == <<X_columns, importances, features>>
vars == <<raw, df, steps, err, y, split, y_train, param_grid, class_weight,
          grid_search, rf, y_test, y_pred, report, cm, table, fig,
          X_columns, importances, features>>

----------------------------------------------------------------------------
(* Bounds *)

\* The largest number of records in a raw table.
MaxRows == 4

\* The largest number of records in a dataset that is split.
MaxRecords == 8

\* The largest number of training labels.
MaxTrain == 6

\* The longest list of class_weight candidates a search space may grow to.
MaxCandidates == 3

\* The largest number of records in a test set.
MaxTest == 3

\* The largest number of feature columns that are ranked.
MaxFeatures == 4

----------------------------------------------------------------------------
(* Generic helpers *)

\* numpy NaN in a numeric column.
NaN == -1

Range(s) == {s[i] : i \in 1..Len(s)}

RECURSIVE SumSeq(_)
SumSeq(s) == IF s = <<>> THEN 0 ELSE s[1] + SumSeq(Tail(s))

\* Insert x into the ascending sequence s.
RECURSIVE Insert(_, _)
Insert(x, s) ==
    IF s = <<>> THEN <<x>>
    ELSE IF x <= s[1] THEN <<x>> \o s
    ELSE <<s[1]>> \o Insert(x, Tail(s))

RECURSIVE SortAsc(_)
SortAsc(s) == IF s = <<>> THEN <<>> ELSE Insert(s[1], SortAsc(Tail(s)))

\* floor(n / d) for d > 0 and any integer n.
FloorDiv(n, d) == n \div d

\* n / d (d > 0, n >= 0) rounded to the nearest integer, ties to the even
\* integer: Python's round() and numpy's around().
RoundHalfEven(n, d) ==
    LET q == n \div d
        r == n % d
    IN  IF 2 * r < d THEN q
        ELSE IF 2 * r > d THEN q + 1
        ELSE IF q % 2 = 0 THEN q ELSE q + 1

----------------------------------------------------------------------------
(* Module constants of feature_selection.py *)

DIAGNOSI_MAP ==
    [k \in {"SR", "AFIB", "STACH", "SARRH", "SBRAD", "PACE", "SVARR", "BIGU",
            "AFLT", "SVTAC", "PSVT", "TRIGU"} |->
        CASE k = "SR" -> 0 [] k = "AFIB" -> 1 [] k = "STACH" -> 0
          [] k = "SARRH" -> 2 [] k = "SBRAD" -> 0 [] k = "PACE" -> 3
          [] k = "SVARR" -> 4 [] k = "BIGU" -> 5 [] k = "AFLT" -> 6
          [] k = "SVTAC" -> 7 [] k = "PSVT" -> 8 [] k = "TRIGU" -> 9]

\* LABELS[str(i)] is LABELS[i + 1] here.
LABELS ==
    <<"Sinus Rhythm", "Atrial Fibrillation", "Sinus Arrhythmia",
      "Normal Functioning Artificial Pacemaker", "Supraventricular Arrhythmia",
      "Bigeminal Pattern (Unknown Origin, SV or Ventricular)", "Atrial Flutter",
      "Supraventricular Tachycardia", "Paroxysmal Supraventricular Tachycardia",
      "Trigeminal Pattern (Unknown Origin, SV or Ventricular)">>

\* Lines 43-46: one slot per code of DIAGNOSI_MAP, filled with the code's
\* (last) text, slot 0 renamed "NSR".
CM_LABELS ==
    <<"NSR", "AFIB", "SARRH", "PACE", "SVARR", "BIGU", "AFLT", "SVTAC", "PSVT",
      "TRIGU">>

DROP_COLUMNS ==
    {"ritmi", "ecg_id", "patient_id", "nurse", "site", "device",
     "recording_date", "report", "scp_codes", "infarction_stadium1",
     "infarction_stadium2", "initial_autogenerated_report", "baseline_drift",
     "static_noise", "burst_noise", "electrodes_problems", "extra_beats",
     "filename_lr", "filename_hr", "validated_by", "second_opinion",
     "validated_by_human", "strat_fold"}

\* The columns format_df reads after the drop.
FEATURE_COLUMNS ==
    {"age", "height", "weight", "sex", "heart_axis", "pacemaker", "diagnosi"}

\* The stages that a specification does not run hold these values.
CleanIdle == raw = [cols |-> {}, rows |-> <<>>] /\ df = <<>> /\ steps = <<>>
SplitIdle == y = <<>> /\ split = <<>>
TrainIdle ==
    /\ y_train = <<>> /\ param_grid = [none |-> TRUE]
    /\ class_weight = <<>> /\ grid_search = <<>> /\ rf = <<>>
EvalIdle ==
    /\ y_test = <<>> /\ y_pred = <<>> /\ report = <<>> /\ cm = <<>>
    /\ table = <<>> /\ fig = <<>>
RankIdle ==
    /\ X_columns = <<>> /\ importances = <<>>
    /\ features = [returned |-> FALSE, value |-> <<>>]

----------------------------------------------------------------------------
(* fill_age_height_weight *)

\* A check that forgets the weight column.
required_columns_no_weight == {"age", "height"}

required_columns == {"age", "height", "weight"}

\* Half-widths of the donor window: height +-2.5 and weight +-2, in tenths.
HeightWindow == 25
WeightWindow == 20

\* The boolean mask of lines 143-147 for donor r and the row being filled;
\* every comparison with a NaN is False.
InWindow(r, row) ==
    /\ r.height # NaN /\ row.height # NaN
    /\ r.weight # NaN /\ row.weight # NaN
    /\ r.height >= row.height - HeightWindow
    /\ r.height <= row.height + HeightWindow
    /\ r.weight >= row.weight - WeightWindow
    /\ r.weight <= row.weight + WeightWindow
    /\ r.age # NaN

KnownAge(r) == r.age # NaN

\* df[mask]["age"] of lines 142-148: the ages of the donors in the window
\* of row, in row order.
age_subset(row, rows) ==
    LET InWin(r) == InWindow(r, row)
        sel == SelectSeq(rows, InWin)
    IN  [i \in 1..Len(sel) |-> sel[i].age]

\* The values df["age"].mean() averages: the ages that are not NaN.
known_ages(rows) ==
    LET sel == SelectSeq(rows, KnownAge)
    IN  [i \in 1..Len(sel) |-> sel[i].age]

\* The median truncated without the 0.5.
IntMedianTruncated(ages) ==
    LET srt == SortAsc(ages)
        n == Len(srt)
    IN  IF n % 2 = 1 THEN srt[(n + 1) \div 2]
        ELSE FloorDiv(srt[n \div 2] + srt[n \div 2 + 1], 2)

\* int(Series.median() + 0.5) of a non-empty sequence of whole ages: the
\* median is the middle value, or the mean of the two middle values.
IntMedianPlusHalf(ages) ==
    LET srt == SortAsc(ages)
        n == Len(srt)
    IN  IF n % 2 = 1 THEN srt[(n + 1) \div 2]
        ELSE FloorDiv(srt[n \div 2] + srt[n \div 2 + 1] + 1, 2)

\* int(Series.mean() + 0.5) of a non-empty sequence of whole ages.
IntMeanPlusHalf(ages) == FloorDiv(2 * SumSeq(ages) + Len(ages), 2 * Len(ages))

\* fill_age raises on this row: the age is missing, the window is empty and
\* the whole age column is NaN, so int(nan + 0.5) raises ValueError.
fill_age_raises(row, rows) ==
    /\ row.age = NaN
    /\ age_subset(row, rows) = <<>>
    /\ known_ages(rows) = <<>>

\* fill_age(row) with the enclosing frame's rows (the frame before apply).
fill_age(row, rows) ==
    IF row.age = NaN
    THEN IF Len(age_subset(row, rows)) > 0
         THEN [row EXCEPT !.age = IntMedianPlusHalf(age_subset(row, rows))]
         ELSE [row EXCEPT !.age = IntMeanPlusHalf(known_ages(rows))]
    ELSE row

\* pd.cut(age, h_age_bins, labels=h_age_labels); an age outside every bin
\* has no label.
h_age_bin(age) ==
    IF age <= -1 THEN "nan"
    ELSE IF age <= 4 THEN "0-4"
    ELSE IF age <= 9 THEN "5-9"
    ELSE IF age <= 19 THEN "10-19"
    ELSE "20+"

\* pd.cut(age, w_age_bins, labels=w_age_labels).
w_age_bin(age) ==
    IF age <= -1 THEN "nan"
    ELSE IF age <= 4 THEN "0-4"
    ELSE IF age <= 9 THEN "5-9"
    ELSE IF age <= 19 THEN "10-19"
    ELSE IF age <= 29 THEN "20-29"
    ELSE IF age <= 39 THEN "30-39"
    ELSE IF age <= 49 THEN "40-49"
    ELSE IF age <= 59 THEN "50-59"
    ELSE IF age <= 69 THEN "60-69"
    ELSE IF age <= 79 THEN "70-79"
    ELSE IF age <= 89 THEN "80-89"
    ELSE "90+"

\* The non-missing values of a group, as the sequence of cells v[i] of the
\* rows i whose key equals k.
RECURSIVE GroupValues(_, _, _)
GroupValues(keys, vals, k) ==
    IF keys = <<>> THEN <<>>
    ELSE (IF keys[1] = k /\ vals[1] # NaN THEN <<vals[1]>> ELSE <<>>)
         \o GroupValues(Tail(keys), Tail(vals), k)

\* x.fillna(round(x.mean(), 1)) for one cell of a group: a group without
\* any value has mean NaN and the cell stays NaN.
GroupFill(keys, vals, i) ==
    LET g == GroupValues(keys, vals, keys[i])
    IN  IF vals[i] # NaN THEN vals[i]
        ELSE IF g = <<>> THEN NaN
        ELSE RoundHalfEven(SumSeq(g), Len(g))

\* Lines 164-192 on rows whose columns are all present; the caller has
\* established that no fill_age call raises.
fill_age_height_weight(rows) ==
    LET aged == [i \in 1..Len(rows) |-> fill_age(rows[i], rows)]
        hkeys == [i \in 1..Len(rows) |-> <<h_age_bin(aged[i].age), aged[i].sex>>]
        wkeys == [i \in 1..Len(rows) |-> <<w_age_bin(aged[i].age), aged[i].sex>>]
        hvals == [i \in 1..Len(rows) |-> aged[i].height]
        wvals == [i \in 1..Len(rows) |-> aged[i].weight]
    IN  [i \in 1..Len(rows) |->
            [aged[i] EXCEPT !.height = GroupFill(hkeys, hvals, i),
                            !.weight = GroupFill(wkeys, wvals, i)]]

----------------------------------------------------------------------------
(* format_df *)

\* "ja" in str(k): the pacemaker texts of the table that contain "ja".
ContainsJa(k) == k \in {"ja, pacemaker", "ja, nein"}

\* Series.fillna("Missing") on a text cell.
FillMissing(v) == IF v = "nan" THEN "Missing" ELSE v

\* {k: i for i, k in enumerate(vals.unique())}[vals[i]]: the rank of the
\* cell's value among the distinct values in first-seen order.
FirstSeenCode(vals, i) ==
    LET first == CHOOSE j \in 1..i :
                    /\ vals[j] = vals[i]
                    /\ \A k \in 1..(j - 1) : vals[k] # vals[i]
    IN  Cardinality({vals[k] : k \in 1..(first - 1)})

\* Series.map(DIAGNOSI_MAP): a code outside the map becomes NaN.
MapDiagnosi(code) ==
    IF code \in DOMAIN DIAGNOSI_MAP THEN DIAGNOSI_MAP[code] ELSE NaN

\* Lines 94-113 of format_df on the imputed rows.
Encode(rows) ==
    LET axis == [i \in 1..Len(rows) |-> FillMissing(rows[i].heart_axis)]
    IN  [i \in 1..Len(rows) |->
            [rows[i] EXCEPT
                !.heart_axis = FirstSeenCode(axis, i),
                !.pacemaker = IF ContainsJa(FillMissing(rows[i].pacemaker)) THEN 1 ELSE 0,
                !.diagnosi = MapDiagnosi(rows[i].diagnosi)]]

ALL_STEPS == <<"drop", "fill_age", "fill_height", "fill_weight", "encode">>

\* format_df(raw): DataFrame.drop raises KeyError when a listed column is
\* absent; fill_age_height_weight raises ValueError when a required column
\* is absent, and fill_age raises ValueError when the age column is all
\* NaN.  Every step works on a new frame: raw itself is left as it was.
format_df ==
    LET dropped == raw.cols \ DROP_COLUMNS
        missing_columns == required_columns \ dropped
        rows == raw.rows
    IN  /\ raw' = raw
        /\ UNCHANGED <<splitVars, trainVars, evalVars, rankVars>>
        /\ IF ~(DROP_COLUMNS \subseteq raw.cols)
           THEN /\ err' = "KeyError: not found in axis"
                /\ steps' = <<>>
                /\ df' = <<>>
           ELSE IF missing_columns # {}
           THEN /\ err' = "ValueError: missing required columns"
                /\ steps' = <<"drop">>
                /\ df' = <<>>
           ELSE IF \E i \in 1..Len(rows) : fill_age_raises(rows[i], rows)
           THEN /\ err' = "ValueError: cannot convert float NaN to integer"
                /\ steps' = <<"drop">>
                /\ df' = <<>>
           ELSE /\ err' = "none"
                /\ steps' = ALL_STEPS
                /\ df' = Encode(fill_age_height_weight(rows))

----------------------------------------------------------------------------
(* Raw tables the preprocessing is run on *)

Row(a, h, w, s, ax, pm, dg) ==
    [age |-> a, height |-> h, weight |-> w, sex |-> s,
     heart_axis |-> ax, pacemaker |-> pm, diagnosi |-> dg]

\* Records around the donor window of a 170.0 / 70.0 patient without age:
\* donors on and just outside the window's edges, records without height
\* or weight, a child, and a record with nothing known.
RowValues ==
    { Row(NaN, 1700, 700, 0, "MID", "nan", "SR"),
      Row(40, 1725, 720, 0, "LAD", "ja, pacemaker", "AFIB"),
      Row(43, 1675, 680, 0, "MID", "nan", "STACH"),
      Row(70, 1710, 710, 1, "nan", "nan", "SR"),
      Row(61, 1726, 700, 0, "MID", "nan", "SBRAD"),
      Row(50, 1690, 721, 1, "LAD", "nan", "PACE"),
      Row(45, NaN, 693, 0, "nan", "nan", "XXX"),
      Row(7, 1204, NaN, 1, "MID", "nan", "SR"),
      Row(NaN, NaN, NaN, 1, "nan", "nan", "AFLT") }

AllColumns == DROP_COLUMNS \cup FEATURE_COLUMNS

\* The columns a raw table may lack.
AbsentColumns == {"age", "height", "weight", "ritmi"}

SeqsUpTo(S, n) == UNION {[1..k -> S] : k \in 0..n}

\* Complete tables of up to MaxRows records, and one-record tables that
\* lack some columns.
RawTables ==
    {[cols |-> AllColumns, rows |-> rs] : rs \in SeqsUpTo(RowValues, MaxRows)}
    \cup
    {[cols |-> AllColumns \ m, rows |-> rs] :
        m \in (SUBSET AbsentColumns) \ {{}}, rs \in [1..1 -> RowValues]}

InitClean ==
    /\ raw \in RawTables
    /\ df = <<>>
    /\ steps = <<>>
    /\ err = "none"
    /\ SplitIdle
    /\ TrainIdle
    /\ EvalIdle
    /\ RankIdle

NextClean == format_df

SpecClean == InitClean /\ [][NextClean]_vars

----------------------------------------------------------------------------
(* train_test_split_by_category *)

\* y.unique(): the distinct labels in first-seen order (NaN included).
RECURSIVE Unique(_)
Unique(s) ==
    IF s = <<>> THEN <<>>
    ELSE LET u == Unique(SubSeq(s, 1, Len(s) - 1))
         IN  IF s[Len(s)] \in Range(u) THEN u ELSE Append(u, s[Len(s)])

\* y[y == label].index.tolist(): NaN == NaN is False, so the NaN label
\* selects nothing.
label_indices(label) ==
    IF label = NaN THEN <<>>
    ELSE LET pos == SelectSeq([i \in 1..Len(y) |-> i], LAMBDA i : y[i] = label)
         IN  [i \in 1..Len(pos) |-> pos[i] - 1]

\* sklearn's _validate_shuffle_split with test_size = 0.2 and no
\* train_size: n_test = ceil(0.2 * n), n_train = n - n_test.
n_test(n) == (n + 4) \div 5
n_train(n) == n - n_test(n)

\* train_test_split raises ValueError when the train part would be empty;
\* that is the case for a list of one index, and for the empty list.
split_raises(indices) == n_train(Len(indices)) = 0

\* Sampling with replacement: an element may be drawn twice.
SeqsWithRepeats(S, k) == [1..k -> S]

\* The sequences of k distinct elements of the set S.
InjectiveSeqs(S, k) ==
    {q \in [1..k -> S] : \A i, j \in 1..k : i # j => q[i] # q[j]}

\* train_test_split(indices, test_size=0.2, random_state=42)[1]: the first
\* n_test entries of a seeded permutation of the list; any permutation the
\* generator may produce is allowed for.
label_test_indices(indices) == InjectiveSeqs(Range(indices), n_test(Len(indices)))

\* The lists test_indices can hold after the loop of lines 214-219 over the
\* labels ls: one pick per label, concatenated in label order.
RECURSIVE TestIndexLists(_)
TestIndexLists(ls) ==
    IF ls = <<>> THEN {<<>>}
    ELSE {head \o tail :
            head \in label_test_indices(label_indices(ls[1])),
            tail \in TestIndexLists(Tail(ls))}

\* Series.drop(test_indices): the entries <<index, value>> whose index is
\* not listed, in the original order.
Drop(test_indices) ==
    LET keep == SelectSeq([i \in 1..Len(y) |-> i - 1],
                          LAMBDA k : k \notin Range(test_indices))
    IN  [i \in 1..Len(keep) |-> <<keep[i], y[keep[i] + 1]>>]

\* Series.loc[test_indices]: the entries at the listed indexes, in list order.
Loc(test_indices) ==
    [i \in 1..Len(test_indices) |-> <<test_indices[i], y[test_indices[i] + 1]>>]

Indexes(entries) == [i \in 1..Len(entries) |-> entries[i][1]]

\* train_test_split_by_category(df, category) on a frame with a RangeIndex.
\* X is represented by its index: X_train and X_test are the indexes of
\* the rows they hold, y_train and y_test pair each index with its label.
train_test_split_by_category ==
    /\ UNCHANGED <<cleanVars, y, trainVars, evalVars, rankVars>>
    /\ IF \E i \in 1..Len(Unique(y)) : split_raises(label_indices(Unique(y)[i]))
       THEN /\ err' = "ValueError: the resulting train set will be empty"
            /\ split' = <<>>
       ELSE \E test_indices \in TestIndexLists(Unique(y)) :
            /\ err' = "none"
            /\ split' = [X_train |-> Indexes(Drop(test_indices)),
                         y_train |-> Drop(test_indices),
                         X_test |-> Indexes(Loc(test_indices)),
                         y_test |-> Loc(test_indices)]

\* The class codes of the datasets that are split; NaN is a diagnosis code
\* outside DIAGNOSI_MAP.
SplitLabels == {0, 1, NaN}

InitSplit ==
    /\ y \in SeqsUpTo(SplitLabels, MaxRecords)
    /\ split = <<>>
    /\ err = "none"
    /\ CleanIdle
    /\ TrainIdle
    /\ EvalIdle
    /\ RankIdle

NextSplit == train_test_split_by_category

SpecSplit == InitSplit /\ [][NextSplit]_vars

----------------------------------------------------------------------------
(* train *)

SeqMax(s) == CHOOSE m \in Range(s) : \A x \in Range(s) : x <= m

\* np.bincount(y_train): the count of every code from 0 to the largest
\* code present; the empty array for no labels.
bincount(ys) ==
    IF ys = <<>> THEN <<>>
    ELSE [i \in 1..(SeqMax(ys) + 1) |-> Cardinality({k \in 1..Len(ys) : ys[k] = i - 1})]

\* numpy's a / b on integers, as the exact ratio [num, den]; a / 0 for
\* a > 0 is inf (with a RuntimeWarning), held as den = 0.
np_divide(a, b) == [num |-> a, den |-> b]
IsFinite(w) == w.den # 0
IsPositive(w) == w.num > 0 /\ w.den >= 0

\* Lines 242-246: {i: sum(class_counts) / class_counts[i] for i in
\* range(len(class_counts))}.
compute_class_weight(ys) ==
    LET class_counts == bincount(ys)
    IN  [i \in 0..(Len(class_counts) - 1) |->
            np_divide(SumSeq(class_counts), class_counts[i + 1])]

\* A class_weight candidate of a search space: the string "balanced" or a
\* dict of weights.
Balanced == [kind |-> "balanced", map |-> <<>>]
WeightDict(cw) == [kind |-> "dict", map |-> cw]

\* A train that never adds the computed weights to the search space.
inject_never(grid, cw) == grid

\* Lines 249-250: param_grid.get("class_weight") is truthy for a key that is
\* present with a non-empty list; the computed weights are then appended to
\* that list, in place.
inject(grid, cw) ==
    IF "class_weight" \in DOMAIN grid /\ grid["class_weight"] # <<>>
    THEN [grid EXCEPT !["class_weight"] = Append(@, WeightDict(cw))]
    ELSE grid

\* ParameterGrid(grid): every combination of one candidate per name.
RECURSIVE Combinations(_, _)
Combinations(grid, names) ==
    IF names = {} THEN {<<>>}
    ELSE LET k == CHOOSE n \in names : TRUE
         IN  {(k :> v) @@ c : v \in Range(grid[k]), c \in Combinations(grid, names \ {k})}

ParameterGrid(grid) == Combinations(grid, DOMAIN grid)

\* GridSearchCV(cv=5).fit raises ValueError for an empty candidate list and
\* when no class has as many members as there are folds.
cv == 5
search_raises(grid, ys) ==
    \/ \E k \in DOMAIN grid : grid[k] = <<>>
    \/ \A c \in Range(ys) : Cardinality({k \in 1..Len(ys) : ys[k] = c}) < cv

\* RandomForestClassifier(**params, random_state=42).
RandomForest(params) ==
    [k \in DOMAIN params \cup {"random_state"} |->
        IF k = "random_state" THEN 42 ELSE params[k]]

\* The search space's class_weight list, if any, is below its longest length.
CanGrow(pg) ==
    IF pg.none THEN TRUE
    ELSE IF "class_weight" \notin DOMAIN pg.dict THEN TRUE
    ELSE Len(pg.dict["class_weight"]) < MaxCandidates

\* train(X_train, y_train, param_grid).  The classifier is represented by
\* its constructor parameters; the search's outcome is any combination of
\* the grid.  The append of line 250 changes the caller's dict.
train ==
    /\ UNCHANGED <<cleanVars, splitVars, y_train, evalVars, rankVars>>
    /\ CanGrow(param_grid)
    /\ class_weight' = compute_class_weight(y_train)
    /\ IF ~param_grid.none
       THEN /\ param_grid' = [param_grid EXCEPT !.dict = inject(@, class_weight')]
            /\ IF search_raises(param_grid'.dict, y_train)
               THEN /\ grid_search' = [param_grid |-> param_grid'.dict, cv |-> cv,
                                       scoring |-> "accuracy", best_params_ |-> <<>>]
                    /\ err' = "ValueError: grid search"
                    /\ rf' = <<>>
               ELSE \E best \in ParameterGrid(param_grid'.dict) :
                    /\ grid_search' = [param_grid |-> param_grid'.dict, cv |-> cv,
                                       scoring |-> "accuracy", best_params_ |-> best]
                    /\ err' = "none"
                    /\ rf' = RandomForest(best)
       ELSE /\ param_grid' = param_grid
            /\ grid_search' = <<>>
            /\ IF y_train = <<>>
               THEN err' = "ValueError: 0 samples" /\ rf' = <<>>
               ELSE err' = "none" /\ rf' = RandomForest([n_estimators |-> 100])

\* Search spaces: none, one without class_weight candidates, the one of
\* __main__ with class_weight ["balanced"], and one whose list is empty.
ParamGrids ==
    { [none |-> TRUE],
      [none |-> FALSE, dict |-> [n_estimators |-> <<50, 100>>]],
      [none |-> FALSE, dict |-> [n_estimators |-> <<50, 100>>,
                                 class_weight |-> <<Balanced>>]],
      [none |-> FALSE, dict |-> [n_estimators |-> <<100>>,
                                 class_weight |-> <<>>]] }

TrainLabels == {0, 1, 2}

InitTrain ==
    /\ y_train \in SeqsUpTo(TrainLabels, MaxTrain)
    /\ param_grid \in ParamGrids
    /\ class_weight = <<>> /\ grid_search = <<>> /\ rf = <<>>
    /\ err = "none"
    /\ CleanIdle
    /\ SplitIdle
    /\ EvalIdle
    /\ RankIdle

NextTrain == train

SpecTrain == InitTrain /\ [][NextTrain]_vars

----------------------------------------------------------------------------
(* create_reports, create_report_table, create_confusion_matrix *)

\* Exact ratios [num, den] with den > 0 stand for the floats of the report.
Ratio(n, d) == [num |-> n, den |-> d]
RAdd(a, b) == Ratio(a.num * b.den + b.num * a.den, a.den * b.den)
RScale(k, a) == Ratio(k * a.num, a.den)
RDivInt(a, k) == Ratio(a.num, a.den * k)

\* x / d with sklearn's zero_division: 0.0 when the denominator is 0.
SafeRatio(n, d) == IF d = 0 THEN Ratio(0, 1) ELSE Ratio(n, d)

RECURSIVE RSum(_)
RSum(s) == IF s = <<>> THEN Ratio(0, 1) ELSE RAdd(s[1], RSum(Tail(s)))

\* unique_labels(y_true, y_pred): the labels that occur, ascending.
RECURSIVE SetToSortedSeq(_)
SetToSortedSeq(S) ==
    IF S = {} THEN <<>>
    ELSE LET x == CHOOSE v \in S : \A w \in S : v <= w
         IN  <<x>> \o SetToSortedSeq(S \ {x})

unique_labels(yt, yp) == SetToSortedSeq(Range(yt) \cup Range(yp))

Count(yt, yp, t, p) == Cardinality({i \in 1..Len(yt) : yt[i] = t /\ yp[i] = p})
Support(yt, l) == Cardinality({i \in 1..Len(yt) : yt[i] = l})
Predicted(yp, l) == Cardinality({i \in 1..Len(yp) : yp[i] = l})

\* precision_recall_fscore_support for one label.
Metrics(yt, yp, l) ==
    LET tp == Count(yt, yp, l, l)
    IN  [precision |-> SafeRatio(tp, Predicted(yp, l)),
         recall |-> SafeRatio(tp, Support(yt, l)),
         f1 |-> SafeRatio(2 * tp, Predicted(yp, l) + Support(yt, l)),
         support |-> Ratio(Support(yt, l), 1)]

accuracy_score(yt, yp) ==
    Ratio(Cardinality({i \in 1..Len(yt) : yt[i] = yp[i]}), Len(yt))

macro_avg(yt, yp) ==
    LET ls == unique_labels(yt, yp)
        ms == [i \in 1..Len(ls) |-> Metrics(yt, yp, ls[i])]
    IN  [precision |-> RDivInt(RSum([i \in 1..Len(ls) |-> ms[i].precision]), Len(ls)),
         recall |-> RDivInt(RSum([i \in 1..Len(ls) |-> ms[i].recall]), Len(ls)),
         f1 |-> RDivInt(RSum([i \in 1..Len(ls) |-> ms[i].f1]), Len(ls)),
         support |-> Ratio(Len(yt), 1)]

weighted_avg(yt, yp) ==
    LET ls == unique_labels(yt, yp)
        ms == [i \in 1..Len(ls) |-> Metrics(yt, yp, ls[i])]
        w(i) == Support(yt, ls[i])
    IN  [precision |-> RDivInt(RSum([i \in 1..Len(ls) |-> RScale(w(i), ms[i].precision)]), Len(yt)),
         recall |-> RDivInt(RSum([i \in 1..Len(ls) |-> RScale(w(i), ms[i].recall)]), Len(yt)),
         f1 |-> RDivInt(RSum([i \in 1..Len(ls) |-> RScale(w(i), ms[i].f1)]), Len(yt)),
         support |-> Ratio(Len(yt), 1)]

\* classification_report(y, y_pred, output_dict=True) after the renaming
\* loop of lines 323-325: report[LABELS[k]] = report.pop(k) moves every
\* class entry behind the three aggregate entries, in label order.
classification_report(yt, yp) ==
    LET ls == unique_labels(yt, yp)
    IN  << [key |-> "accuracy", value |-> accuracy_score(yt, yp)],
           [key |-> "macro avg", value |-> macro_avg(yt, yp)],
           [key |-> "weighted avg", value |-> weighted_avg(yt, yp)] >>
        \o [i \in 1..Len(ls) |->
               [key |-> LABELS[ls[i] + 1], value |-> Metrics(yt, yp, ls[i])]]

\* confusion_matrix(y, y_pred) without labels=: one row and one column per
\* label of unique_labels(y, y_pred).
confusion_matrix(yt, yp) ==
    LET ls == unique_labels(yt, yp)
    IN  [i \in 1..Len(ls) |-> [j \in 1..Len(ls) |-> Count(yt, yp, ls[i], ls[j])]]

\* test(rf, X_test, y_test) = create_reports(y_test, predict(rf, X_test)).
create_reports ==
    /\ UNCHANGED <<cleanVars, splitVars, trainVars, rankVars, y_test, y_pred, table, fig>>
    /\ report' = classification_report(y_test, y_pred)
    /\ cm' = confusion_matrix(y_test, y_pred)
    /\ err' = "none"

HasKey(d, k) == \E i \in 1..Len(d) : d[i].key = k
Get(d, k) == d[CHOOSE i \in 1..Len(d) : d[i].key = k].value
\* dict.pop(k): the dict without the entry.
Pop(d, k) == SelectSeq(d, LAMBDA e : e.key # k)

\* vv if vv > 1 else round(vv * 100, 2), for every value of a row, the
\* support included; the rounded percentage is held in hundredths.
Cell(v) ==
    IF v.num > v.den THEN [shown |-> "as is", value |-> v]
    ELSE [shown |-> "percent", hundredths |-> RoundHalfEven(10000 * v.num, v.den)]

TableRow(k, v) ==
    [name |-> k,
     cells |-> <<Cell(v.precision), Cell(v.recall), Cell(v.f1), Cell(v.support)>>]

\* create_report_table(report): the three pops of lines 350-352 change the
\* caller's dict; a report without "accuracy" raises KeyError at line 350.
create_report_table ==
    /\ report # <<>>
    /\ UNCHANGED <<cleanVars, splitVars, trainVars, rankVars, y_test, y_pred, cm, fig>>
    /\ IF ~HasKey(report, "accuracy")
       THEN /\ err' = "KeyError: 'accuracy'"
            /\ UNCHANGED <<report, table>>
       ELSE LET accuracy == Get(report, "accuracy")
                macro == Get(report, "macro avg")
                weighted == Get(report, "weighted avg")
                rest == Pop(Pop(Pop(report, "accuracy"), "macro avg"), "weighted avg")
            IN  /\ report' = rest
                /\ table' =
                     [rows |-> [i \in 1..Len(rest) |-> TableRow(rest[i].key, rest[i].value)]
                               \o <<TableRow("macro avg", macro),
                                    TableRow("weighted avg", weighted)>>,
                      accuracy |-> RoundHalfEven(10000 * accuracy.num, accuracy.den)]
                /\ err' = "none"

Reverse(s) == [i \in 1..Len(s) |-> s[Len(s) + 1 - i]]

\* create_confusion_matrix(cm): the heatmap's axes are the ten CM_LABELS
\* whatever the shape of cm.
create_confusion_matrix ==
    /\ cm # <<>>
    /\ UNCHANGED <<cleanVars, splitVars, trainVars, rankVars, y_test, y_pred, report, cm, table>>
    /\ fig' = [z |-> Reverse(cm), x |-> CM_LABELS, y |-> Reverse(CM_LABELS)]
    /\ err' = "none"

\* The class codes of the test sets.
TestLabels == {0, 1, 3}

InitEval ==
    /\ \E n \in 1..MaxTest :
        /\ y_test \in [1..n -> TestLabels]
        /\ y_pred \in [1..n -> TestLabels]
    /\ report = <<>> /\ cm = <<>> /\ table = <<>> /\ fig = <<>>
    /\ err = "none"
    /\ CleanIdle
    /\ SplitIdle
    /\ TrainIdle
    /\ RankIdle

NextEval == create_reports \/ create_report_table \/ create_confusion_matrix

SpecEval == InitEval /\ [][NextEval]_vars

----------------------------------------------------------------------------
(* select_features *)

\* zip(X.columns, importances): pairs <<feature, importance>>, as many as
\* the shorter of the two.
Zip(cols, imps) ==
    LET n == IF Len(cols) <= Len(imps) THEN Len(cols) ELSE Len(imps)
    IN  [i \in 1..n |-> <<cols[i], imps[i]>>]

\* Insert pair x into the list s, sorted by importance descending, behind
\* every pair whose importance is not smaller.
RECURSIVE InsertDesc(_, _)
InsertDesc(x, s) ==
    IF s = <<>> THEN <<x>>
    ELSE IF s[1][2] >= x[2] THEN <<s[1]>> \o InsertDesc(x, Tail(s))
    ELSE <<x>> \o s

\* Insert pair x into the list s, sorted by importance ascending, behind
\* every pair whose importance is not larger.
RECURSIVE InsertAsc(_, _)
InsertAsc(x, s) ==
    IF s = <<>> THEN <<x>>
    ELSE IF s[1][2] <= x[2] THEN <<s[1]>> \o InsertAsc(x, Tail(s))
    ELSE <<x>> \o s

RECURSIVE SortedAscStable(_)
SortedAscStable(s) ==
    IF s = <<>> THEN <<>>
    ELSE InsertAsc(s[Len(s)], SortedAscStable(SubSeq(s, 1, Len(s) - 1)))

\* ordered.sort(key=...) followed by ordered.reverse(): descending as well,
\* but pairs of equal importance end up in reverse input order.
sort_then_reverse(s) == Reverse(SortedAscStable(s))

\* ordered.sort(key=lambda x: x[1], reverse=True): list.sort is stable, and
\* with reverse=True pairs of equal key still keep their original order.
RECURSIVE sort_reverse(_)
sort_reverse(s) ==
    IF s = <<>> THEN <<>>
    ELSE InsertDesc(s[Len(s)], sort_reverse(SubSeq(s, 1, Len(s) - 1)))

\* select_features(rf, X): X and rf are not changed.
select_features ==
    /\ UNCHANGED <<cleanVars, splitVars, trainVars, evalVars, X_columns, importances>>
    /\ features' = [returned |-> TRUE,
                    value |-> sort_reverse(Zip(X_columns, importances))]
    /\ err' = "none"

\* The feature columns of the training frame, in the table's order.
ColumnNames == <<"age", "sex", "height", "weight", "heart_axis", "pacemaker">>

\* Importances (hundredths) a fitted forest may report for a feature.
ImportanceValues == {0, 25, 50}

\* __main__ ranks the columns of X_train with the model fitted on X_train:
\* one importance per column.
InitRank ==
    /\ \E n \in 0..MaxFeatures :
        /\ X_columns = SubSeq(ColumnNames, 1, n)
        /\ importances \in [1..n -> ImportanceValues]
    /\ features = [returned |-> FALSE, value |-> <<>>]
    /\ err = "none"
    /\ CleanIdle
    /\ SplitIdle
    /\ TrainIdle
    /\ EvalIdle

NextRank == select_features

SpecRank == InitRank /\ [][NextRank]_vars

----------------------------------------------------------------------------
(* Preprocessing: properties *)

\* The last format_df call returned a dataset / raised.
Returned == err = "none" /\ steps # <<>>
Raised == err # "none"

\* The records whose age is known and whose height and weight lie within
\* 2.5 and 2 units of record i's, as a set of row numbers.
DonorWindow(i) ==
    {j \in 1..Len(raw.rows) :
        /\ raw.rows[j].age # NaN
        /\ raw.rows[i].height # NaN /\ raw.rows[j].height # NaN
        /\ raw.rows[i].weight # NaN /\ raw.rows[j].weight # NaN
        /\ raw.rows[j].height - raw.rows[i].height \in -25..25
        /\ raw.rows[j].weight - raw.rows[i].weight \in -20..20}

RecordsWithAge == {j \in 1..Len(raw.rows) : raw.rows[j].age # NaN}

\* The p-th smallest age among the records J (1 <= p <= |J|).
KthAge(J, p) ==
    CHOOSE x \in {raw.rows[j].age : j \in J} :
        /\ Cardinality({j \in J : raw.rows[j].age < x}) < p
        /\ Cardinality({j \in J : raw.rows[j].age <= x}) >= p

RECURSIVE AgeSum(_)
AgeSum(J) ==
    IF J = {} THEN 0
    ELSE LET j == CHOOSE k \in J : TRUE
         IN  raw.rows[j].age + AgeSum(J \ {j})

\* a = trunc(median of J's ages + 0.5): twice the median is the sum of the
\* two middle ages (the middle age twice for an odd count).
IsRoundedMedian(a, J) ==
    LET n == Cardinality(J)
        twice == KthAge(J, (n + 1) \div 2) + KthAge(J, n \div 2 + 1)
    IN  2 * a <= twice + 1 /\ twice + 1 < 2 * (a + 1)

\* a = trunc(mean of J's ages + 0.5).
IsRoundedMean(a, J) ==
    LET n == Cardinality(J)
    IN  2 * n * a <= 2 * AgeSum(J) + n /\ 2 * AgeSum(J) + n < 2 * n * (a + 1)

\* C4: in the dataset format_df returns, a record whose age was known keeps
\* it, and a record whose age was missing gets the truncation of (median of
\* its donor window's ages + 0.5) when the window is not empty and of
\* (mean of all known ages + 0.5) otherwise.
C4_ImputedAge ==
    Returned =>
        \A i \in 1..Len(raw.rows) :
            IF raw.rows[i].age # NaN THEN df[i].age = raw.rows[i].age
            ELSE IF DonorWindow(i) # {} THEN IsRoundedMedian(df[i].age, DonorWindow(i))
            ELSE IsRoundedMean(df[i].age, RecordsWithAge)

\* A returned dataset in which a record's age came from a window of three
\* donors whose rounded median is not the rounded mean of the known ages.
C4_Witness ==
    /\ Returned
    /\ \E i \in 1..Len(raw.rows) :
        /\ raw.rows[i].age = NaN
        /\ Cardinality(DonorWindow(i)) >= 3
        /\ ~IsRoundedMean(df[i].age, RecordsWithAge)

\* The group of record i for the height (weight) fill has no known value.
HeightGroupEmpty(i) ==
    \A j \in 1..Len(df) :
        (h_age_bin(df[j].age) = h_age_bin(df[i].age) /\ df[j].sex = df[i].sex)
            => raw.rows[j].height = NaN
WeightGroupEmpty(i) ==
    \A j \in 1..Len(df) :
        (w_age_bin(df[j].age) = w_age_bin(df[i].age) /\ df[j].sex = df[i].sex)
            => raw.rows[j].weight = NaN

\* C3: on a table with all its columns the imputation does not abort; a
\* value that was present is still present, and an age, height or weight is
\* still missing afterwards only when its donors (all known ages; the
\* record's age-bin and sex group) had no value at all.
C3_ImputationComplete ==
    (raw.cols = AllColumns /\ (Returned \/ Raised)) =>
        /\ err = "none"
        /\ \A i \in 1..Len(raw.rows) :
            /\ raw.rows[i].age # NaN => df[i].age = raw.rows[i].age
            /\ raw.rows[i].height # NaN => df[i].height = raw.rows[i].height
            /\ raw.rows[i].weight # NaN => df[i].weight = raw.rows[i].weight
            /\ df[i].age = NaN => RecordsWithAge = {}
            /\ df[i].height = NaN => HeightGroupEmpty(i)
            /\ df[i].weight = NaN => WeightGroupEmpty(i)

\* The same, for the runs that do return: the part of C3 the code keeps.
C3_WhenReturned ==
    Returned =>
        \A i \in 1..Len(raw.rows) :
            /\ raw.rows[i].age # NaN => df[i].age = raw.rows[i].age
            /\ raw.rows[i].height # NaN => df[i].height = raw.rows[i].height
            /\ raw.rows[i].weight # NaN => df[i].weight = raw.rows[i].weight
            /\ df[i].age # NaN
            /\ df[i].height = NaN => HeightGroupEmpty(i)
            /\ df[i].weight = NaN => WeightGroupEmpty(i)

\* C5 as stated: a table lacking age, height or weight makes format_df fail
\* with the missing-required-columns error before any processing step
\* (column dropping included) has been applied, and nothing is returned.
C5_SchemaErrorFirst ==
    ((Returned \/ Raised) /\ ~({"age", "height", "weight"} \subseteq raw.cols)) =>
        /\ err = "ValueError: missing required columns"
        /\ steps = <<>>
        /\ df = <<>>

\* C5 amended: a table lacking age, height or weight makes format_df fail
\* and return nothing; when every drop-list column is there the failure is
\* the missing-required-columns error, raised after the column drop and
\* before imputation and encoding; when a drop-list column is absent too,
\* the drop itself fails first with a KeyError.
C5_SchemaErrorAfterDrop ==
    ((Returned \/ Raised) /\ ~({"age", "height", "weight"} \subseteq raw.cols)) =>
        /\ df = <<>>
        /\ IF DROP_COLUMNS \subseteq raw.cols
           THEN err = "ValueError: missing required columns" /\ steps = <<"drop">>
           ELSE err = "KeyError: not found in axis" /\ steps = <<>>

\* format_df has failed on a table with every drop-list column and no
\* weight column.
C5_Witness ==
    /\ Raised
    /\ "weight" \notin raw.cols
    /\ DROP_COLUMNS \subseteq raw.cols
    /\ steps = <<"drop">>

----------------------------------------------------------------------------
(* Stratified split: properties *)

SplitReturned == split # <<>>
SplitRaised == err = "ValueError: the resulting train set will be empty"

AllIndexes == {k - 1 : k \in 1..Len(y)}

\* C1: when the split returns, every record index of the input is in
\* exactly one of train and test, once, and the label series are cut the
\* same way as the feature frames and carry the input's labels.
C1_Partition ==
    SplitReturned =>
        /\ Range(split.X_train) \cap Range(split.X_test) = {}
        /\ Range(split.X_train) \cup Range(split.X_test) = AllIndexes
        /\ Len(split.X_train) + Len(split.X_test) = Len(y)
        /\ Indexes(split.y_train) = split.X_train
        /\ Indexes(split.y_test) = split.X_test
        /\ \A i \in 1..Len(split.y_train) :
               split.y_train[i][2] = y[split.y_train[i][1] + 1]
        /\ \A i \in 1..Len(split.y_test) :
               split.y_test[i][2] = y[split.y_test[i][1] + 1]

\* A returned split of two classes with two test records of one class.
C1_Witness ==
    /\ SplitReturned
    /\ Cardinality({i \in 1..Len(split.y_test) : split.y_test[i][2] = 0}) = 2
    /\ Cardinality({i \in 1..Len(split.y_test) : split.y_test[i][2] = 1}) = 1
    /\ Len(split.X_train) >= 4

ClassCount(c) == Cardinality({i \in 1..Len(y) : y[i] = c})
TestCount(c) == Cardinality({i \in 1..Len(split.y_test) : split.y_test[i][2] = c})

\* d is within 1 of the integer nearest to n / 5 (n / 5 is never a tie).
NearRoundedFifth(d, n) == \E r \in (d - 1)..(d + 1) : 10 * r - 5 < 2 * n /\ 2 * n < 10 * r + 5

\* C2: on a dataset in which every record has a class, the stratified split
\* completes, also for a class of one record, and the number of test
\* records of each class is within 1 of round(0.2 * the class's count).
C2_TestShare ==
    ((SplitReturned \/ SplitRaised) /\ NaN \notin Range(y)) =>
        /\ SplitReturned
        /\ \A c \in Range(y) : NearRoundedFifth(TestCount(c), ClassCount(c))

\* The part of C2 that holds: when the split returns, every class has
\* ceil(0.2 * count) test records, which is within 1 of round(0.2 * count).
C2_WhenReturned ==
    SplitReturned =>
        \A c \in Range(y) : NearRoundedFifth(TestCount(c), ClassCount(c))

----------------------------------------------------------------------------
(* Trainer: properties *)

TrainReturned == rf # <<>>
TrainRaised == err \in {"ValueError: grid search", "ValueError: 0 samples"}
TrainCalled == TrainReturned \/ TrainRaised

SamplesOf(c) == Cardinality({k \in 1..Len(y_train) : y_train[k] = c})

\* C6: after train, the class-weight map holds total_samples / count(c)
\* for every class c of y_train, every weight in it is finite and strictly
\* positive, and it has no entry for a class code without samples.
C6_ClassWeights ==
    TrainCalled =>
        /\ \A c \in Range(y_train) :
            /\ c \in DOMAIN class_weight
            /\ class_weight[c].num = Len(y_train)
            /\ class_weight[c].den = SamplesOf(c)
        /\ \A c \in DOMAIN class_weight :
            /\ IsFinite(class_weight[c])
            /\ IsPositive(class_weight[c])
            /\ SamplesOf(c) > 0

\* The part of C6 that holds: the weight of every class that has samples.
C6_PresentClasses ==
    TrainCalled =>
        \A c \in Range(y_train) :
            /\ c \in DOMAIN class_weight
            /\ class_weight[c] = [num |-> Len(y_train), den |-> SamplesOf(c)]
            /\ IsFinite(class_weight[c]) /\ IsPositive(class_weight[c])

\* The model of the branch without a search space: 100 trees, seed 42.
FixedModel == [n_estimators |-> 100, random_state |-> 42]

C10_ArgumentsUnchanged ==
    [][/\ raw' = raw /\ y' = y /\ y_train' = y_train /\ y_test' = y_test
       /\ param_grid' = param_grid
       /\ report # <<>> => report' = report]_vars

----------------------------------------------------------------------------
(* Evaluator: properties *)

\* C8: the confusion matrix create_reports returns has one row and one
\* column per label of the closed label set, in the order of CM_LABELS,
\* whatever labels occur: entry (l, m) counts the records of true class l
\* predicted as m, and the heatmap's rows line up with its ten axis labels.
C8_FullLabelSet ==
    /\ cm # <<>> =>
        /\ Len(cm) = Len(CM_LABELS)
        /\ \A l, m \in 1..Len(CM_LABELS) :
               cm[l][m] = Count(y_test, y_pred, l - 1, m - 1)
    /\ fig # <<>> => Len(fig.z) = Len(fig.y)

\* The part of C8 that holds: the matrix is square over the labels that
\* occur in y_test or y_pred, ascending, and its row sums are the supports.
C8_PresentLabels ==
    cm # <<>> =>
        LET ls == SetToSortedSeq(Range(y_test) \cup Range(y_pred))
        IN  /\ Len(cm) = Len(ls)
            /\ \A i, j \in 1..Len(ls) : cm[i][j] = Count(y_test, y_pred, ls[i], ls[j])

\* One hundred times the number a table cell shows.
ShownTimes100(c) ==
    IF c.shown = "percent" THEN c.hundredths ELSE (100 * c.value.num) \div c.value.den

\* h hundredths is v * 100 rounded to two decimals.
IsPercentOf(h, v) == 2 * (h * v.den - 10000 * v.num) \in (0 - v.den)..v.den

\* The report values of the table's rows, in the table's order.
ReportRows ==
    LET ls == unique_labels(y_test, y_pred)
    IN  [i \in 1..Len(ls) |-> Metrics(y_test, y_pred, ls[i])]
        \o <<macro_avg(y_test, y_pred), weighted_avg(y_test, y_pred)>>

\* C9: in the table create_report_table returns, every class row and
\* aggregate row shows precision, recall and f1-score as the value times
\* 100 rounded to 2 decimals, and shows the support as the unchanged count.
C9_TableCells ==
    table # <<>> =>
        /\ Len(table.rows) = Len(ReportRows)
        /\ \A i \in 1..Len(table.rows) :
            /\ table.rows[i].cells[1].shown = "percent"
            /\ IsPercentOf(table.rows[i].cells[1].hundredths, ReportRows[i].precision)
            /\ table.rows[i].cells[2].shown = "percent"
            /\ IsPercentOf(table.rows[i].cells[2].hundredths, ReportRows[i].recall)
            /\ table.rows[i].cells[3].shown = "percent"
            /\ IsPercentOf(table.rows[i].cells[3].hundredths, ReportRows[i].f1)
            /\ ShownTimes100(table.rows[i].cells[4]) = 100 * ReportRows[i].support.num

\* The part of C9 that holds: the three metrics of every row, and the
\* support of every row whose support is not 1.
C9_ExceptSupportOne ==
    table # <<>> =>
        /\ Len(table.rows) = Len(ReportRows)
        /\ \A i \in 1..Len(table.rows) :
            /\ IsPercentOf(table.rows[i].cells[1].hundredths, ReportRows[i].precision)
            /\ IsPercentOf(table.rows[i].cells[2].hundredths, ReportRows[i].recall)
            /\ IsPercentOf(table.rows[i].cells[3].hundredths, ReportRows[i].f1)
            /\ ReportRows[i].support.num # 1 =>
                   ShownTimes100(table.rows[i].cells[4]) = 100 * ReportRows[i].support.num

----------------------------------------------------------------------------
(* Feature ranker: properties *)

\* The position of feature name f among the input columns.
ColumnIndex(f) == CHOOSE i \in 1..Len(X_columns) : X_columns[i] = f

\* C11: the list select_features returns has exactly one (name, importance)
\* pair per input feature column, carrying that column's importance; it is
\* sorted non-increasing by importance, and two features of equal
\* importance appear in their input column order.
C11_StableRanking ==
    features.returned =>
        LET out == features.value
        IN  /\ Len(out) = Len(X_columns)
            /\ \A i \in 1..Len(X_columns) :
                   \E p \in 1..Len(out) :
                       /\ out[p] = <<X_columns[i], importances[i]>>
                       /\ \A q \in 1..Len(out) : out[q][1] = X_columns[i] => q = p
            /\ \A p, q \in 1..Len(out) :
                   p < q =>
                       /\ out[p][2] >= out[q][2]
                       /\ out[p][2] = out[q][2] =>
                              ColumnIndex(out[p][1]) < ColumnIndex(out[q][1])

\* A returned ranking of four features in which a later column overtook
\* earlier ones and two columns of equal importance kept their order.
C11_Witness ==
    /\ features.returned
    /\ Len(features.value) = 4
    /\ features.value[1][1] # X_columns[1]
    /\ \E p \in 1..3 : features.value[p][2] = features.value[p + 1][2]

====
